---- MODULE Spec2Model ----
(***************************************************************************)
(* SkillSwap: the REST API of server/routes.ts over the relational store   *)
(* of server/storage.ts and shared/schema.ts.                              *)
(*                                                                         *)
(* A handler runs on Node's event loop: it is atomic between two awaits.   *)
(* A handler that reads the store, checks, and then writes is therefore    *)
(* two steps: the first action (named after the route) runs the middleware *)
(* and the handler up to the awaited write and either answers at once or   *)
(* leaves the request in `inflight`; the second action (named after the    *)
(* storage method) performs the awaited write and answers.  The caller of  *)
(* a request is the userId its login session carries, NoUser when none.    *)
(***************************************************************************)
EXTENDS Integers, FiniteSets, Sequences, TLC

\* ---- bounds ----
NumUsers == 3
MaxSkills == 1
MaxSessions == 1
MaxReviews == 1
MaxInFlight == 2
NumCookies == 1

\* ---- program constants ----
MinRating == 1
MaxRating == 5

UserIds == 1..NumUsers
SkillIds == 1..MaxSkills
SessionIds == 1..MaxSessions
\* a browser's cookie jar: the connect.sid cookie names its login session
Cookies == 1..NumCookies
\* usernames and e-mail addresses: user u is seeded with name u
Names == 1..NumUsers
\* passwords a request body can carry
Passwords == {"secret", "guess"}

\* req.session.userId is undefined when the login session is not authenticated
NoUser == 0
Callers == UserIds \cup {NoUser}

Statuses == {"pending", "accepted", "completed", "cancelled"}
PatchStatuses_NoWhitelist == {"pending", "accepted", "completed", "cancelled", ""}

PatchStatuses == {"accepted", "completed", "cancelled"}
\* status values a request body can carry: the four of the schema and one
\* that is none of them ("" also stands for a missing value)
BodyStatuses == Statuses \cup {""}
\* ratings a request body can carry, around both ends of the accepted range
BodyRatings == {MinRating - 1, MinRating, MaxRating, MaxRating + 1}

VARIABLES
  users,          \* table users: id -> [isAdmin, username, email, password]
  skills,         \* table skills: id -> [userId]
  sessions,       \* table sessions: id -> [requesterId, providerId, skillId, status]
  reviews,        \* table reviews: id -> [sessionId, reviewerId, revieweeId, rating]
  nextSkillId,    \* ids are gen_random_uuid(): fresh, never reused
  nextSessionId,
  nextReviewId,
  nextUserId,
  loginSession,   \* express-session store: cookie -> req.session.userId, NoUser when unset
  inflight,       \* requests suspended at the await of their write
  response,       \* the last HTTP response sent: [route, code, message]
  client          \* state of the React client: the page shown and its hooks' values

vars == <<users, skills, sessions, reviews, nextSkillId, nextSessionId,
          nextReviewId, nextUserId, loginSession, inflight, response, client>>

store == <<users, skills, sessions, reviews, nextSkillId, nextSessionId,
           nextReviewId, nextUserId>>

\* a suspended request: the write it awaits, req.session.userId, and the
\* values of the body/params the write uses
Req(kind, uid, id, who, status, rating) ==
  [kind |-> kind, uid |-> uid, id |-> id, who |-> who, status |-> status, rating |-> rating]

\* res.status(code).json({ message }); a success carries a record, message ""
Res(route, code, message) == [route |-> route, code |-> code, message |-> message]

Restrict(f, S) == [x \in S |-> f[x]]

\* bcrypt.hash: the stored value is not the password, and bcrypt.compare
\* accepts exactly the password that was hashed
Hash(password) == <<"bcrypt", password>>
compare(password, hash) == Hash(password) = hash

\* res.json(body) of a route that answers with data
Json(route, body) == [route |-> route, code |-> 200, message |-> "", body |-> body]

\* no page of the client is open
NoPage == [page |-> "none"]

\* is_admin defaults to false and no route sets it at registration: the
\* first user is the administrator seeded in the database
SeedUser(u) ==
  [isAdmin |-> (u = 1), username |-> u, email |-> u, password |-> Hash("secret")]

Init ==
  /\ users = [u \in UserIds |-> SeedUser(u)]
  /\ nextUserId = NumUsers + 1
  /\ loginSession = [c \in Cookies |-> NoUser]
  /\ skills = << >>
  /\ sessions = << >>
  /\ reviews = << >>
  /\ nextSkillId = 1
  /\ nextSessionId = 1
  /\ nextReviewId = 1
  /\ inflight = {}
  /\ response = Res("", 0, "")
  /\ client = NoPage

\* the handler answers and returns without touching the store
Reply(route, code, message) ==
  /\ response' = Res(route, code, message)
  /\ UNCHANGED <<store, loginSession, client, inflight>>

\* the handler reaches `await storage.<write>(...)`
Suspend(req) ==
  /\ Cardinality(inflight) < MaxInFlight
  /\ inflight' = inflight \cup {req}
  /\ UNCHANGED <<store, loginSession, client, response>>

\* ---- storage.ts reads ----
getUser(id) == IF id \in DOMAIN users THEN users[id] ELSE [isAdmin |-> FALSE]
hasSkill(id) == id \in DOMAIN skills
hasSession(id) == id \in DOMAIN sessions

\* ---- ON DELETE CASCADE (shared/schema.ts) ----
\* the tables after the rows of users in U and of skills in K are deleted
SkillsAfter(U, K) ==
  Restrict(skills, {k \in DOMAIN skills : k \notin K /\ skills[k].userId \notin U})

SessionsAfter_NoUserCascade(U, K) ==
  Restrict(sessions, {i \in DOMAIN sessions :
                        sessions[i].skillId \in DOMAIN SkillsAfter(U, K)})

SessionsAfter(U, K) ==
  Restrict(sessions, {i \in DOMAIN sessions :
                        /\ sessions[i].requesterId \notin U
                        /\ sessions[i].providerId \notin U
                        /\ sessions[i].skillId \in DOMAIN SkillsAfter(U, K)})

ReviewsAfter_NoSessionCascade(U, K) ==
  Restrict(reviews, {v \in DOMAIN reviews :
                       /\ reviews[v].reviewerId \notin U
                       /\ reviews[v].revieweeId \notin U})

ReviewsAfter(U, K) ==
  Restrict(reviews, {v \in DOMAIN reviews :
                       /\ reviews[v].reviewerId \notin U
                       /\ reviews[v].revieweeId \notin U
                       /\ reviews[v].sessionId \in DOMAIN SessionsAfter(U, K)})

\* ---- POST /api/skills ----
PostSkill_NoAuth(uid, bodyOk) ==
  IF ~bodyOk THEN Reply("postSkill", 400, "Invalid input")
  ELSE IF uid \notin DOMAIN users
    THEN Reply("postSkill", 500, "An error occurred. Please try again.")
  ELSE /\ nextSkillId <= MaxSkills
       /\ skills' = (nextSkillId :> [userId |-> uid]) @@ skills
       /\ nextSkillId' = nextSkillId + 1
       /\ response' = Res("postSkill", 201, "")
       /\ UNCHANGED <<users, sessions, reviews, nextSessionId, nextReviewId, inflight,
                      nextUserId, loginSession, client>>

PostSkill(uid, bodyOk) ==
  IF uid = NoUser THEN Reply("postSkill", 401, "Unauthorized")
  ELSE IF ~bodyOk THEN Reply("postSkill", 400, "Invalid input")
  ELSE IF uid \notin DOMAIN users
    \* skills.user_id references users.id: the insert throws, asyncHandler answers
    THEN Reply("postSkill", 500, "An error occurred. Please try again.")
  ELSE /\ nextSkillId <= MaxSkills
       /\ skills' = (nextSkillId :> [userId |-> uid]) @@ skills
       /\ nextSkillId' = nextSkillId + 1
       /\ response' = Res("postSkill", 201, "")
       /\ UNCHANGED <<users, sessions, reviews, nextSessionId, nextReviewId, inflight,
                   nextUserId, loginSession, client>>

\* ---- DELETE /api/skills/:id ----
\* The two awaits (getSkill, deleteSkill) are one step: the column checked,
\* skills.user_id, is never updated and the delete is idempotent.
DeleteSkill(uid, id) ==
  IF uid = NoUser THEN Reply("deleteSkill", 401, "Unauthorized")
  ELSE IF ~hasSkill(id) THEN Reply("deleteSkill", 404, "Skill not found")
  ELSE IF skills[id].userId # uid THEN Reply("deleteSkill", 403, "Not authorized")
  ELSE /\ skills' = SkillsAfter({}, {id})
       /\ sessions' = SessionsAfter({}, {id})
       /\ reviews' = ReviewsAfter({}, {id})
       /\ response' = Res("deleteSkill", 200, "Skill deleted")
       /\ UNCHANGED <<users, nextSkillId, nextSessionId, nextReviewId, inflight,
                   nextUserId, loginSession, client>>

\* ---- POST /api/sessions/request ----
PendingCreates == {r \in inflight : r.kind = "createSession"}

InvalidSkillOrProvider_NoOwnerCheck(skillId, providerId) ==
  ~hasSkill(skillId)

\* !skill || skill.userId !== providerId
InvalidSkillOrProvider(skillId, providerId) ==
  ~hasSkill(skillId) \/ skills[skillId].userId # providerId

SelfRequest_Never(providerId, uid) ==
  FALSE

\* providerId === req.session.userId
SelfRequest(providerId, uid) ==
  providerId = uid

PostSessionRequest(uid, bodyOk, skillId, providerId) ==
  IF uid = NoUser THEN Reply("sessionRequest", 401, "Unauthorized")
  ELSE IF ~bodyOk THEN Reply("sessionRequest", 400, "Invalid input")
  ELSE IF InvalidSkillOrProvider(skillId, providerId)
    THEN Reply("sessionRequest", 400, "Invalid skill or provider")
  ELSE IF SelfRequest(providerId, uid)
    THEN Reply("sessionRequest", 400, "Cannot request session with yourself")
  ELSE /\ nextSessionId + Cardinality(PendingCreates) <= MaxSessions
       /\ Suspend(Req("createSession", uid, skillId, providerId, "", 0))

createSession_Swapped(r) ==
  /\ r \in inflight
  /\ r.kind = "createSession"
  /\ inflight' = inflight \ {r}
  /\ IF r.uid \in DOMAIN users /\ r.who \in DOMAIN users /\ hasSkill(r.id)
       THEN /\ sessions' = (nextSessionId :>
                              [requesterId |-> r.who, providerId |-> r.uid,
                               skillId |-> r.id, status |-> "pending"]) @@ sessions
            /\ nextSessionId' = nextSessionId + 1
            /\ response' = Res("sessionRequest", 201, "")
       ELSE /\ response' = Res("sessionRequest", 500, "An error occurred. Please try again.")
            /\ UNCHANGED <<sessions, nextSessionId>>
  /\ UNCHANGED <<users, skills, reviews, nextSkillId, nextReviewId,
                 nextUserId, loginSession, client>>

createSession(r) ==
  /\ r \in inflight
  /\ r.kind = "createSession"
  /\ inflight' = inflight \ {r}
  /\ IF r.uid \in DOMAIN users /\ r.who \in DOMAIN users /\ hasSkill(r.id)
       THEN /\ sessions' = (nextSessionId :>
                              [requesterId |-> r.uid, providerId |-> r.who,
                               skillId |-> r.id, status |-> "pending"]) @@ sessions
            /\ nextSessionId' = nextSessionId + 1
            /\ response' = Res("sessionRequest", 201, "")
       ELSE \* foreign key violation: the insert throws, asyncHandler answers
            /\ response' = Res("sessionRequest", 500, "An error occurred. Please try again.")
            /\ UNCHANGED <<sessions, nextSessionId>>
  /\ UNCHANGED <<users, skills, reviews, nextSkillId, nextReviewId,
                 nextUserId, loginSession, client>>

\* ---- PATCH /api/sessions/:id ----
ForbiddenUpdate_AcceptByRequester(s, uid, status) ==
  IF status = "accepted" THEN s.requesterId # uid
  ELSE IF status = "completed" THEN s.providerId # uid
  ELSE IF status = "cancelled" THEN s.providerId # uid /\ s.requesterId # uid
  ELSE FALSE

ForbiddenUpdate_CompleteByEither(s, uid, status) ==
  IF status = "accepted" THEN s.providerId # uid
  ELSE IF status \in {"completed", "cancelled"}
    THEN s.providerId # uid /\ s.requesterId # uid
  ELSE FALSE

ForbiddenUpdate_CancelOr(s, uid, status) ==
  IF status = "accepted" \/ status = "completed" THEN s.providerId # uid
  ELSE IF status = "cancelled" THEN s.providerId # uid \/ s.requesterId # uid
  ELSE FALSE

\* "Only provider can accept/complete, both can cancel": the 403 conditions
ForbiddenUpdate(s, uid, status) ==
  IF status = "accepted" \/ status = "completed" THEN s.providerId # uid
  ELSE IF status = "cancelled" THEN s.providerId # uid /\ s.requesterId # uid
  ELSE FALSE

ForbiddenMessage(status) ==
  IF status = "cancelled" THEN "Not authorized"
  ELSE "Only the provider can update this session"

PatchSession_NoExistenceCheck(uid, id, status) ==
  IF uid = NoUser THEN Reply("patchSession", 401, "Unauthorized")
  ELSE IF status \notin PatchStatuses THEN Reply("patchSession", 400, "Invalid status")
  ELSE IF hasSession(id) /\ ForbiddenUpdate(sessions[id], uid, status)
    THEN Reply("patchSession", 403, ForbiddenMessage(status))
  ELSE Suspend(Req("updateSession", uid, id, NoUser, status, 0))

PatchSession(uid, id, status) ==
  IF uid = NoUser THEN Reply("patchSession", 401, "Unauthorized")
  ELSE IF status \notin PatchStatuses THEN Reply("patchSession", 400, "Invalid status")
  ELSE IF ~hasSession(id) THEN Reply("patchSession", 404, "Session not found")
  ELSE IF ForbiddenUpdate(sessions[id], uid, status)
    THEN Reply("patchSession", 403, ForbiddenMessage(status))
  ELSE Suspend(Req("updateSession", uid, id, NoUser, status, 0))

updateSession_IfPending(r) ==
  /\ r \in inflight
  /\ r.kind = "updateSession"
  /\ inflight' = inflight \ {r}
  /\ sessions' = IF hasSession(r.id) /\ sessions[r.id].status = "pending"
                   THEN [sessions EXCEPT ![r.id].status = r.status]
                   ELSE sessions
  /\ response' = Res("patchSession", 200, "")
  /\ UNCHANGED <<users, skills, reviews, nextSkillId, nextSessionId, nextReviewId,
                 nextUserId, loginSession, client>>

updateSession_SetsRequester(r) ==
  /\ r \in inflight
  /\ r.kind = "updateSession"
  /\ inflight' = inflight \ {r}
  /\ sessions' = IF hasSession(r.id)
                   THEN [sessions EXCEPT ![r.id].status = r.status,
                                         ![r.id].requesterId = r.uid]
                   ELSE sessions
  /\ response' = Res("patchSession", 200, "")
  /\ UNCHANGED <<users, skills, reviews, nextSkillId, nextSessionId, nextReviewId,
                 nextUserId, loginSession, client>>

\* UPDATE sessions SET status = ... WHERE id = ...; no row matched: `updated`
\* is undefined and res.json still answers 200
updateSession(r) ==
  /\ r \in inflight
  /\ r.kind = "updateSession"
  /\ inflight' = inflight \ {r}
  /\ sessions' = IF hasSession(r.id)
                   THEN [sessions EXCEPT ![r.id].status = r.status]
                   ELSE sessions
  /\ response' = Res("patchSession", 200, "")
  /\ UNCHANGED <<users, skills, reviews, nextSkillId, nextSessionId, nextReviewId,
                 nextUserId, loginSession, client>>

\* ---- POST /api/reviews ----
PendingReviews == {r \in inflight : r.kind = "createReview"}

InvalidRating_OffByOne(rating) == rating < MinRating \/ rating > MaxRating + 1

\* `!rating || rating < 1 || rating > 5` over integer ratings
InvalidRating(rating) == rating < MinRating \/ rating > MaxRating

PostReview_NoParticipantCheck(uid, sessionId, revieweeId, rating) ==
  IF uid = NoUser THEN Reply("postReview", 401, "Unauthorized")
  ELSE IF InvalidRating(rating)
    THEN Reply("postReview", 400, "Invalid review data")
  ELSE IF ~hasSession(sessionId) \/ sessions[sessionId].status # "completed"
    THEN Reply("postReview", 400, "Can only review completed sessions")
  ELSE IF revieweeId # sessions[sessionId].requesterId
          /\ revieweeId # sessions[sessionId].providerId
    THEN Reply("postReview", 400, "Invalid reviewee")
  ELSE /\ nextReviewId + Cardinality(PendingReviews) <= MaxReviews
       /\ Suspend(Req("createReview", uid, sessionId, revieweeId, "", rating))

\* sessionId and revieweeId are drawn from non-empty ids and rating from
\* integers, so of the first check only the range test can fail
PostReview(uid, sessionId, revieweeId, rating) ==
  IF uid = NoUser THEN Reply("postReview", 401, "Unauthorized")
  ELSE IF InvalidRating(rating)
    THEN Reply("postReview", 400, "Invalid review data")
  ELSE IF ~hasSession(sessionId) \/ sessions[sessionId].status # "completed"
    THEN Reply("postReview", 400, "Can only review completed sessions")
  ELSE IF sessions[sessionId].requesterId # uid /\ sessions[sessionId].providerId # uid
    THEN Reply("postReview", 403, "Not authorized to review this session")
  ELSE IF revieweeId # sessions[sessionId].requesterId
          /\ revieweeId # sessions[sessionId].providerId
    THEN Reply("postReview", 400, "Invalid reviewee")
  ELSE /\ nextReviewId + Cardinality(PendingReviews) <= MaxReviews
       /\ Suspend(Req("createReview", uid, sessionId, revieweeId, "", rating))

createReview(r) ==
  /\ r \in inflight
  /\ r.kind = "createReview"
  /\ inflight' = inflight \ {r}
  /\ IF hasSession(r.id) /\ r.uid \in DOMAIN users /\ r.who \in DOMAIN users
       THEN /\ reviews' = (nextReviewId :>
                             [sessionId |-> r.id, reviewerId |-> r.uid,
                              revieweeId |-> r.who, rating |-> r.rating]) @@ reviews
            /\ nextReviewId' = nextReviewId + 1
            /\ response' = Res("postReview", 201, "")
       ELSE \* foreign key violation: the insert throws, asyncHandler answers
            /\ response' = Res("postReview", 500, "An error occurred. Please try again.")
            /\ UNCHANGED <<reviews, nextReviewId>>
  /\ UNCHANGED <<users, skills, sessions, nextSkillId, nextSessionId,
                 nextUserId, loginSession, client>>

\* ---- DELETE /api/admin/users/:id ----
\* requireAdmin's awaited getUser and the handler's deleteUser are one step
\* in Spec, where no action writes users.is_admin, the column requireAdmin
\* reads; SpecAuth, where AdminPatchUser does, takes the route in two steps
\* (AdminDeleteUserAwait, deleteUser).
AdminDeleteUser(uid, id) ==
  IF uid = NoUser THEN Reply("adminDeleteUser", 401, "Unauthorized")
  ELSE IF ~getUser(uid).isAdmin THEN Reply("adminDeleteUser", 403, "Forbidden")
  ELSE IF id = uid THEN Reply("adminDeleteUser", 400, "Cannot delete yourself")
  ELSE /\ users' = Restrict(users, DOMAIN users \ {id})
       /\ skills' = SkillsAfter({id}, {})
       /\ sessions' = SessionsAfter({id}, {})
       /\ reviews' = ReviewsAfter({id}, {})
       /\ response' = Res("adminDeleteUser", 200, "User deleted")
       /\ UNCHANGED <<nextSkillId, nextSessionId, nextReviewId, inflight,
                   nextUserId, loginSession, client>>

\* ======================= authentication and administration =======================

\* ---- storage.ts reads by unique column ----
getUserByUsername(username) == {u \in DOMAIN users : users[u].username = username}
getUserByEmail(email) == {u \in DOMAIN users : users[u].email = email}

\* a registration suspended at `await storage.createUser(...)`
RegReq(c, username, email, password) ==
  [kind |-> "createUser", cookie |-> c, username |-> username, email |-> email,
   password |-> password]

\* an admin request suspended at the await of its write, which uses
\* req.params.id and req.body.isAdmin only
AdminReq(kind, id, isAdmin) ==
  [kind |-> kind, id |-> id, isAdmin |-> isAdmin]

PendingUsers == {r \in inflight : r.kind = "createUser"}

\* ---- POST /api/auth/register ----
\* The two lookups and bcrypt.hash are one step: they write nothing, and the
\* unique constraints are checked again by the insert.
Register(c, bodyOk, username, email, password) ==
  IF ~bodyOk THEN Reply("register", 400, "Invalid input")
  ELSE IF getUserByUsername(username) # {}
    THEN Reply("register", 400, "Username already taken")
  ELSE IF getUserByEmail(email) # {}
    THEN Reply("register", 400, "Email already registered")
  ELSE /\ nextUserId + Cardinality(PendingUsers) <= NumUsers
       /\ Suspend(RegReq(c, username, email, Hash(password)))

createUser_NoUniqueConstraint(r) ==
  /\ r \in inflight
  /\ r.kind = "createUser"
  /\ inflight' = inflight \ {r}
  /\ users' = (nextUserId :>
                 [isAdmin |-> FALSE, username |-> r.username,
                  email |-> r.email, password |-> r.password]) @@ users
  /\ nextUserId' = nextUserId + 1
  /\ loginSession' = [loginSession EXCEPT ![r.cookie] = nextUserId]
  /\ UNCHANGED client
  /\ response' = Res("register", 201, "")
  /\ UNCHANGED <<skills, sessions, reviews, nextSkillId, nextSessionId, nextReviewId>>

createUser(r) ==
  /\ r \in inflight
  /\ r.kind = "createUser"
  /\ inflight' = inflight \ {r}
  /\ IF getUserByUsername(r.username) = {} /\ getUserByEmail(r.email) = {}
       THEN /\ users' = (nextUserId :>
                           [isAdmin |-> FALSE, username |-> r.username,
                            email |-> r.email, password |-> r.password]) @@ users
            /\ nextUserId' = nextUserId + 1
            /\ loginSession' = [loginSession EXCEPT ![r.cookie] = nextUserId]
            /\ UNCHANGED client
            /\ response' = Res("register", 201, "")
       ELSE \* unique violation: the insert throws, asyncHandler answers
            /\ response' = Res("register", 500, "An error occurred. Please try again.")
            /\ UNCHANGED <<users, nextUserId, loginSession, client>>
  /\ UNCHANGED <<skills, sessions, reviews, nextSkillId, nextSessionId, nextReviewId>>

\* ---- POST /api/auth/login ----
\* One step, taken when the response is sent and the login session saved: the
\* handler writes nothing else, and no route changes a username or password.
Login(c, bodyOk, username, password) ==
  IF ~bodyOk THEN Reply("login", 400, "Invalid input")
  ELSE IF getUserByUsername(username) = {}
    THEN Reply("login", 401, "Invalid username or password")
  ELSE LET user == CHOOSE u \in getUserByUsername(username) : TRUE
       IN  IF ~compare(password, users[user].password)
             THEN Reply("login", 401, "Invalid username or password")
           ELSE /\ loginSession' = [loginSession EXCEPT ![c] = user]
                /\ UNCHANGED client
                /\ response' = Res("login", 200, "")
                /\ UNCHANGED <<store, inflight>>

\* ---- POST /api/auth/logout ----
\* req.session.destroy; a failure of the session store is not modelled
Logout(c) ==
  /\ loginSession' = [loginSession EXCEPT ![c] = NoUser]
  /\ UNCHANGED client
  /\ response' = Res("logout", 200, "Logged out successfully")
  /\ UNCHANGED <<store, inflight>>

\* ---- GET /api/auth/me ----
GetMe(uid) ==
  IF uid = NoUser THEN Reply("me", 401, "Not authenticated")
  ELSE IF uid \notin DOMAIN users THEN Reply("me", 401, "User not found")
  ELSE Reply("me", 200, "")

\* ---- GET /api/skills/my, GET /api/sessions/my ----
GetMySkills(uid) ==
  IF uid = NoUser THEN Reply("mySkills", 401, "Unauthorized")
  ELSE Reply("mySkills", 200, "")

GetMySessions(uid) ==
  IF uid = NoUser THEN Reply("mySessions", 401, "Unauthorized")
  ELSE Reply("mySessions", 200, "")

\* ---- admin routes ----
requireAdmin_NoFlagCheck(uid, route, next) ==
  IF uid = NoUser THEN Reply(route, 401, "Unauthorized")
  ELSE next

\* the middleware reads the caller's row at every request; `next` is the
\* handler behind it
requireAdmin(uid, route, next) ==
  IF uid = NoUser THEN Reply(route, 401, "Unauthorized")
  ELSE IF ~getUser(uid).isAdmin THEN Reply(route, 403, "Forbidden")
  ELSE next

\* the two reads answer with a listing, which the model does not carry
AdminGetUsers(uid) ==
  requireAdmin(uid, "adminGetUsers", Reply("adminGetUsers", 200, ""))

AdminGetStats(uid) ==
  requireAdmin(uid, "adminGetStats", Reply("adminGetStats", 200, ""))

\* PATCH /api/admin/users/:id up to `await storage.updateUser(...)`
AdminPatchUser(uid, id, isAdmin) ==
  requireAdmin(uid, "adminPatchUser",
               Suspend(AdminReq("updateUser", id, isAdmin)))

updateUser(r) ==
  /\ r \in inflight
  /\ r.kind = "updateUser"
  /\ inflight' = inflight \ {r}
  /\ IF r.id \in DOMAIN users
       THEN /\ users' = [users EXCEPT ![r.id].isAdmin = r.isAdmin]
            /\ response' = Res("adminPatchUser", 200, "")
       ELSE /\ response' = Res("adminPatchUser", 404, "User not found")
            /\ UNCHANGED users
  /\ UNCHANGED <<skills, sessions, reviews, nextSkillId, nextSessionId, nextReviewId,
                 nextUserId, loginSession, client>>

\* DELETE /api/admin/users/:id up to `await storage.deleteUser(...)`: with
\* AdminPatchUser at work the caller's flag can change before the delete runs
AdminDeleteUserAwait(uid, id) ==
  requireAdmin(uid, "adminDeleteUser",
               IF id = uid THEN Reply("adminDeleteUser", 400, "Cannot delete yourself")
               ELSE Suspend(AdminReq("deleteUser", id, FALSE)))

\* the login sessions of the deleted user stay in the session store
deleteUser(r) ==
  /\ r \in inflight
  /\ r.kind = "deleteUser"
  /\ inflight' = inflight \ {r}
  /\ users' = Restrict(users, DOMAIN users \ {r.id})
  /\ skills' = SkillsAfter({r.id}, {})
  /\ sessions' = SessionsAfter({r.id}, {})
  /\ reviews' = ReviewsAfter({r.id}, {})
  /\ response' = Res("adminDeleteUser", 200, "User deleted")
  /\ UNCHANGED <<nextSkillId, nextSessionId, nextReviewId, nextUserId, loginSession, client>>

Next ==
  \/ \E uid \in Callers, bodyOk \in BOOLEAN : PostSkill(uid, bodyOk)
  \/ \E uid \in Callers, id \in SkillIds : DeleteSkill(uid, id)
  \/ \E uid \in Callers, bodyOk \in BOOLEAN, s \in SkillIds, p \in UserIds :
       PostSessionRequest(uid, bodyOk, s, p)
  \/ \E r \in inflight : createSession(r)
  \/ \E uid \in Callers, id \in SessionIds, st \in BodyStatuses : PatchSession(uid, id, st)
  \/ \E r \in inflight : updateSession(r)
  \/ \E uid \in Callers, id \in SessionIds, who \in UserIds, rating \in BodyRatings :
       PostReview(uid, id, who, rating)
  \/ \E r \in inflight : createReview(r)
  \/ \E uid \in Callers, id \in UserIds : AdminDeleteUser(uid, id)

Spec == Init /\ [][Next]_vars

\* ---- the API with login sessions and the admin flag at work ----
\* SpecAuth follows the requests of one browser at a time: the caller of a
\* request is the user of the login session its cookie names, and a request
\* is sent when the previous one has been answered.  The last user id is free
\* for a registration.  The session and review routes are taken without a
\* login session only; Spec takes them with every caller.
InitAuth ==
  /\ users = [u \in 1..(NumUsers - 1) |-> SeedUser(u)]
  /\ nextUserId = NumUsers
  /\ loginSession = [c \in Cookies |-> NoUser]
  /\ skills = << >>
  /\ sessions = << >>
  /\ reviews = << >>
  /\ nextSkillId = 1
  /\ nextSessionId = 1
  /\ nextReviewId = 1
  /\ inflight = {}
  /\ response = Res("", 0, "")
  /\ client = NoPage

NextAuth ==
  \/ /\ inflight = {}
     /\ \/ \E c \in Cookies, bodyOk \in BOOLEAN, n \in Names, e \in Names, p \in Passwords :
             Register(c, bodyOk, n, e, p)
        \/ \E c \in Cookies, bodyOk \in BOOLEAN, n \in Names, p \in Passwords :
             Login(c, bodyOk, n, p)
        \/ \E c \in Cookies : Logout(c)
        \/ \E c \in Cookies : GetMe(loginSession[c])
        \/ \E c \in Cookies : GetMySkills(loginSession[c])
        \/ \E c \in Cookies : GetMySessions(loginSession[c])
        \/ \E c \in Cookies, bodyOk \in BOOLEAN : PostSkill(loginSession[c], bodyOk)
        \/ \E c \in Cookies, id \in SkillIds : DeleteSkill(loginSession[c], id)
        \/ \E bodyOk \in BOOLEAN, s \in SkillIds, p \in UserIds :
             PostSessionRequest(NoUser, bodyOk, s, p)
        \/ \E id \in SessionIds, st \in BodyStatuses : PatchSession(NoUser, id, st)
        \/ \E id \in SessionIds, who \in UserIds, rating \in BodyRatings :
             PostReview(NoUser, id, who, rating)
        \/ \E c \in Cookies : AdminGetUsers(loginSession[c])
        \/ \E c \in Cookies : AdminGetStats(loginSession[c])
        \/ \E c \in Cookies, id \in UserIds, isAdmin \in BOOLEAN :
             AdminPatchUser(loginSession[c], id, isAdmin)
        \/ \E c \in Cookies, id \in UserIds : AdminDeleteUserAwait(loginSession[c], id)
  \/ \E r \in inflight : createUser(r)
  \/ \E r \in inflight : updateUser(r)
  \/ \E r \in inflight : deleteUser(r)

SpecAuth == InitAuth /\ [][NextAuth]_vars

\* ---- failing store operations ----
\* What a request does when the store operation it awaits is rejected depends
\* only on where the await stands: inside a handler wrapped by asyncHandler,
\* inside the requireAdmin middleware, which is registered unwrapped, or in
\* the callback of req.session.destroy.
AdminRoutes == {"adminGetUsers", "adminPatchUser", "adminDeleteUser", "adminGetStats"}

WrappedRoutes ==
  AdminRoutes \cup
  {"register", "login", "me", "mySkills", "postSkill", "deleteSkill", "search",
   "mySessions", "sessionRequest", "patchSession", "postReview", "reviews", "userStats"}

\* a request of an authenticated caller suspended at an awaited store operation
Awaiting(route, at) == [kind |-> "await", route |-> route, at |-> at]

\* the request runs up to its first awaited store operation
Arrive(route) ==
  Suspend(Awaiting(route, IF route \in AdminRoutes THEN "requireAdmin"
                          ELSE IF route = "logout" THEN "destroy"
                          ELSE "asyncHandler"))

\* the awaited operation succeeds: requireAdmin answers 403 or calls next(),
\* a handler or the destroy callback answers
Resolve(r) ==
  /\ r \in inflight
  /\ r.kind = "await"
  /\ r.at \in {"requireAdmin", "asyncHandler", "destroy"}
  /\ \/ /\ r.at = "requireAdmin"
        /\ \/ /\ inflight' = inflight \ {r}
              /\ response' = Res(r.route, 403, "Forbidden")
           \/ /\ inflight' = (inflight \ {r}) \cup {Awaiting(r.route, "asyncHandler")}
              /\ UNCHANGED response
     \/ /\ r.at = "asyncHandler"
        /\ inflight' = inflight \ {r}
        /\ response' = Res(r.route, 200, "")
     \/ /\ r.at = "destroy"
        /\ inflight' = inflight \ {r}
        /\ response' = Res(r.route, 200, "Logged out successfully")
  /\ UNCHANGED <<store, loginSession, client>>

\* the awaited operation is rejected.  Inside asyncHandler the catch answers
\* 500.  Inside requireAdmin the promise of the async middleware is rejected
\* and nothing in routes.ts handles it: Express 4 drops it and the request
\* is never answered; Express 5 passes it to its error handling, which
\* answers 500.
Reject(r) ==
  /\ r \in inflight
  /\ r.kind = "await"
  /\ r.at \in {"requireAdmin", "asyncHandler", "destroy"}
  /\ \/ /\ r.at = "asyncHandler"
        /\ inflight' = inflight \ {r}
        /\ response' = Res(r.route, 500, "An error occurred. Please try again.")
     \/ /\ r.at = "destroy"
        /\ inflight' = inflight \ {r}
        /\ response' = Res(r.route, 500, "Could not log out")
     \/ /\ r.at = "requireAdmin"
        /\ \/ /\ inflight' = (inflight \ {r}) \cup {Awaiting(r.route, "unhandledRejection")}
              /\ UNCHANGED response
           \/ /\ inflight' = inflight \ {r}
              /\ response' = Res(r.route, 500, "Internal Server Error")
  /\ UNCHANGED <<store, loginSession, client>>

NextFail ==
  \/ \E route \in WrappedRoutes \cup {"logout"} : Arrive(route)
  \/ \E r \in inflight : Resolve(r)
  \/ \E r \in inflight : Reject(r)

SpecFail == Init /\ [][NextFail]_vars

\* ---- concurrent registrations ----
\* Only the administrator is seeded, so that two registrations can be under
\* way at once: each browser may send a registration while another awaits
\* its insert.
InitReg ==
  /\ users = [u \in {1} |-> SeedUser(u)]
  /\ nextUserId = 2
  /\ loginSession = [c \in Cookies |-> NoUser]
  /\ skills = << >>
  /\ sessions = << >>
  /\ reviews = << >>
  /\ nextSkillId = 1
  /\ nextSessionId = 1
  /\ nextReviewId = 1
  /\ inflight = {}
  /\ response = Res("", 0, "")
  /\ client = NoPage

NextReg ==
  \/ \E c \in Cookies, bodyOk \in BOOLEAN, n \in Names, e \in Names, p \in Passwords :
       Register(c, bodyOk, n, e, p)
  \/ \E r \in inflight : createUser(r)

SpecReg == InitReg /\ [][NextReg]_vars

\* ---- skill search ----
MaxRows == 2

Chars == {"a", "A", "b", "B"}

toLowerCase_Identity(str) == str

\* String.prototype.toLowerCase on the letters of Chars
toLowerCase(str) ==
  [i \in DOMAIN str |-> IF str[i] = "A" THEN "a" ELSE IF str[i] = "B" THEN "b" ELSE str[i]]

\* String.prototype.includes
includes(str, sub) ==
  \E i \in 0..(Len(str) - Len(sub)) : SubSeq(str, i + 1, i + Len(sub)) = sub

\* An optional value (a query parameter, a nullable column) is a sequence of
\* no element when undefined or null, of one element otherwise.
None == <<>>
Some(v) == <<v>>

SkillNames == {<<"a">>, <<"A", "b">>, <<"B", "a">>}
Descriptions == {None, Some(<<"b">>), Some(<<"a", "B">>)}
\* strings are sequences of letters, "" the empty one
Categories == {<<"a", "b">>, <<"A", "b">>}
Queries == {None, Some(<<>>), Some(<<"a">>), Some(<<"A">>), Some(<<"a", "b">>), Some(<<"b", "b">>)}
CategoryParams == {None, Some(<<>>)} \cup {Some(c) : c \in Categories}

\* the columns of a skill row that the search reads
SkillRows ==
  [userId : 1..2, name : SkillNames, description : Descriptions,
   category : Categories, createdAt : 1..MaxRows]

\* a value of an `if (value)` test: undefined, null and "" are falsy
Truthy(opt) == opt # None /\ opt[1] # <<>>

\* select ... from skills inner join users ... order by created_at desc: the
\* rows in any order that has no row before a newer one
JoinedNewestFirst ==
  LET ids == {id \in DOMAIN skills : skills[id].userId \in DOMAIN users}
      joined(id) == [id |-> id, skill |-> skills[id], user |-> users[skills[id].userId]]
  IN  { [i \in 1..Cardinality(ids) |-> joined(order[i])] :
          order \in { o \in [1..Cardinality(ids) -> ids] :
                        /\ \A a, b \in DOMAIN o : a # b => o[a] # o[b]
                        /\ \A a, b \in DOMAIN o :
                             a < b => skills[o[a]].createdAt >= skills[o[b]].createdAt } }

\* the two filters of searchSkills on one joined row
MatchesQuery(s, query) ==
  LET lowerQuery == toLowerCase(query[1])
  IN  \/ includes(toLowerCase(s.skill.name), lowerQuery)
      \/ ( /\ Truthy(s.skill.description)
           /\ includes(toLowerCase(s.skill.description[1]), lowerQuery) )

searchSkills(query, category) ==
  LET keepQ(s) == IF Truthy(query) THEN MatchesQuery(s, query) ELSE TRUE
      keepC(s) == IF Truthy(category) THEN s.skill.category = category[1] ELSE TRUE
  IN  { SelectSeq(SelectSeq(results, keepQ), keepC) : results \in JoinedNewestFirst }

\* GET /api/search
Search(query, category) ==
  /\ \E found \in searchSkills(query, category) : response' = Json("search", found)
  /\ UNCHANGED <<store, loginSession, inflight, client>>

InitSearch ==
  /\ users = [u \in 1..2 |-> SeedUser(u)]
  /\ \E n \in 0..MaxRows : skills \in [1..n -> SkillRows]
  /\ sessions = <<>>
  /\ reviews = <<>>
  /\ nextSkillId = MaxRows + 1
  /\ nextSessionId = 1
  /\ nextReviewId = 1
  /\ nextUserId = 3
  /\ loginSession = [c \in Cookies |-> NoUser]
  /\ inflight = {}
  /\ response = Res("", 0, "")
  /\ client = NoPage

NextSearch == \E query \in Queries, category \in CategoryParams : Search(query, category)

SpecSearch == InitSearch /\ [][NextSearch]_vars

\* ---- badges ----
MaxBadgeSkills == 3
MaxBadgeSessions == 5
MaxBadgeReviews == 3

TopTutorSessions == 5
SkillMasterSkills == 3
GettingStartedSkills == 1
HighlyRatedReviews == 3
\* the mark 4.5 as a fraction
HighlyRatedNum == 9
HighlyRatedDen == 2

RECURSIVE SumRatings(_)
SumRatings(rs) ==
  IF rs = {} THEN 0
  ELSE LET r == CHOOSE x \in rs : TRUE IN reviews[r].rating + SumRatings(rs \ {r})

getSkillsByUserId(id) == {k \in DOMAIN skills : skills[k].userId = id}
getSessionsByUserId(id) ==
  {n \in DOMAIN sessions : sessions[n].requesterId = id \/ sessions[n].providerId = id}
getReviewsByUserId(id) == {r \in DOMAIN reviews : reviews[r].revieweeId = id}

\* averageRating >= 4.5 && reviews.length >= 3, the average being the sum
\* over the count and 0 without reviews
HighlyRated(id) ==
  LET rs == getReviewsByUserId(id)
  IN  /\ Cardinality(rs) > 0
      /\ HighlyRatedDen * SumRatings(rs) >= HighlyRatedNum * Cardinality(rs)
      /\ Cardinality(rs) >= HighlyRatedReviews

\* the badges array of GET /api/users/:id/stats
ServerBadges(id) ==
  LET userSkills == getSkillsByUserId(id)
      completedSessions ==
        Cardinality({n \in getSessionsByUserId(id) : sessions[n].status = "completed"})
      offeringSkills == Cardinality({k \in userSkills : skills[k].type = "offering"})
  IN  (IF completedSessions >= TopTutorSessions THEN <<"top_tutor">> ELSE <<>>)
      \o (IF offeringSkills >= SkillMasterSkills THEN <<"skill_master">> ELSE <<>>)
      \o (IF Cardinality(userSkills) >= GettingStartedSkills THEN <<"getting_started">> ELSE <<>>)
      \o (IF HighlyRated(id) THEN <<"highly_rated">> ELSE <<>>)

\* the badges array of the Dashboard, computed from the results of
\* /api/skills/my and /api/sessions/my
ClientBadges(uid) ==
  LET mySkills == getSkillsByUserId(uid)
      completedSessions ==
        Cardinality({n \in getSessionsByUserId(uid) : sessions[n].status = "completed"})
      offeringSkills == {k \in mySkills : skills[k].type = "offering"}
  IN  (IF completedSessions >= TopTutorSessions THEN <<"Top Tutor">> ELSE <<>>)
      \o (IF Cardinality(offeringSkills) >= SkillMasterSkills THEN <<"Skill Master">> ELSE <<>>)
      \o (IF Cardinality(mySkills) >= GettingStartedSkills THEN <<"Getting Started">> ELSE <<>>)

\* GET /api/users/:id/stats
GetUserStats(id) ==
  IF id \notin DOMAIN users
  THEN Reply("userStats", 404, "User not found")
  ELSE /\ response' = Json("userStats", [id |-> id, badges |-> ServerBadges(id)])
       /\ UNCHANGED <<store, loginSession, inflight, client>>

\* the Dashboard of the logged-in user renders
Dashboard(uid) ==
  /\ uid \in DOMAIN users
  /\ client' = [page |-> "dashboard", user |-> uid, badges |-> ClientBadges(uid)]
  /\ UNCHANGED <<store, loginSession, inflight, response>>

InitBadges ==
  /\ users = [u \in 1..2 |-> SeedUser(u)]
  /\ \E n \in 0..MaxBadgeSkills :
       skills \in [1..n -> [userId : {1}, type : {"offering", "seeking"}]]
  /\ \E n \in 0..MaxBadgeSessions :
       sessions \in [1..n -> [requesterId : {2}, providerId : {1}, skillId : {1},
                              status : {"accepted", "completed"}]]
  /\ \E n \in 0..MaxBadgeReviews :
       reviews \in [1..n -> [sessionId : {1}, reviewerId : {2}, revieweeId : {1},
                             rating : {MaxRating - 1, MaxRating}]]
  /\ nextSkillId = MaxBadgeSkills + 1
  /\ nextSessionId = MaxBadgeSessions + 1
  /\ nextReviewId = MaxBadgeReviews + 1
  /\ nextUserId = 3
  /\ loginSession = [c \in Cookies |-> NoUser]
  /\ inflight = {}
  /\ response = Res("", 0, "")
  /\ client = NoPage

NextBadges ==
  \/ \E id \in UserIds : GetUserStats(id)
  \/ \E uid \in UserIds : Dashboard(uid)

SpecBadges == InitBadges /\ [][NextBadges]_vars

\* ---- the session cards of the Dashboard ----
\* client = [page, user, sessions, isPending, sessionToReview, reviewRating, sent]:
\* the logged-in user, the data of the /api/sessions/my query, whether
\* updateSessionMutation is pending, the session chosen for review (None or
\* Some), the stars chosen, and the last request issued (None or Some)
PatchRequest(sessionId, status) ==
  [method |-> "PATCH", path |-> "/api/sessions/:id", sessionId |-> sessionId, status |-> status]

ReviewRequest(sessionId, revieweeId, rating) ==
  [method |-> "POST", path |-> "/api/reviews", sessionId |-> sessionId,
   revieweeId |-> revieweeId, rating |-> rating]

isRequester(id) == client.sessions[id].requesterId = client.user
isProvider(id) == client.sessions[id].providerId = client.user

\* onUpdateStatus: updateSessionMutation.mutate({ sessionId, status })
onUpdateStatus(id, status) ==
  /\ ~client.isPending
  /\ client' = [client EXCEPT !.isPending = TRUE, !.sent = Some(PatchRequest(id, status))]
  /\ UNCHANGED <<store, loginSession, inflight, response>>

ClickAccept(id) ==
  /\ id \in DOMAIN client.sessions
  /\ client.sessions[id].status = "pending" /\ isProvider(id)
  /\ onUpdateStatus(id, "accepted")

ClickDecline(id) ==
  /\ id \in DOMAIN client.sessions
  /\ client.sessions[id].status = "pending" /\ isProvider(id)
  /\ onUpdateStatus(id, "cancelled")

ClickComplete_AnyParticipant(id) ==
  /\ id \in DOMAIN client.sessions
  /\ client.sessions[id].status = "accepted"
  /\ onUpdateStatus(id, "completed")

ClickComplete(id) ==
  /\ id \in DOMAIN client.sessions
  /\ client.sessions[id].status = "accepted" /\ isProvider(id)
  /\ onUpdateStatus(id, "completed")

ClickCancel(id) ==
  /\ id \in DOMAIN client.sessions
  /\ client.sessions[id].status = "pending" /\ isRequester(id)
  /\ onUpdateStatus(id, "cancelled")

\* the mutation settles and the query is refetched
MutationSettled ==
  /\ client.isPending
  /\ client' = [client EXCEPT !.isPending = FALSE,
                              !.sessions = Restrict(sessions, getSessionsByUserId(client.user))]
  /\ UNCHANGED <<store, loginSession, inflight, response>>

\* the Leave Review button: handleReviewSession
handleReviewSession(id) ==
  /\ id \in DOMAIN client.sessions
  /\ client.sessions[id].status = "completed"
  /\ client' = [client EXCEPT !.sessionToReview = Some([id |-> id] @@ client.sessions[id])]
  /\ UNCHANGED <<store, loginSession, inflight, response>>

\* a star of the review dialog
setReviewRating(star) ==
  /\ client.sessionToReview # None
  /\ client' = [client EXCEPT !.reviewRating = star]
  /\ UNCHANGED <<store, loginSession, inflight, response>>

submitReview ==
  /\ client.sessionToReview # None
  /\ client.user # NoUser
  /\ LET sessionToReview == client.sessionToReview[1]
         revieweeId == IF sessionToReview.requesterId = client.user
                       THEN sessionToReview.providerId
                       ELSE sessionToReview.requesterId
     IN  client' = [client EXCEPT
                      !.sent = Some(ReviewRequest(sessionToReview.id, revieweeId, client.reviewRating))]
  /\ UNCHANGED <<store, loginSession, inflight, response>>

\* one session between two different users, in any status, shown to one of them
InitCard ==
  /\ users = [u \in UserIds |-> SeedUser(u)]
  /\ \E requester \in UserIds, provider \in UserIds, status \in Statuses :
       /\ requester # provider
       /\ skills = (1 :> [userId |-> provider])
       /\ sessions = (1 :> [requesterId |-> requester, providerId |-> provider,
                            skillId |-> 1, status |-> status])
  /\ reviews = <<>>
  /\ nextSkillId = 2
  /\ nextSessionId = 2
  /\ nextReviewId = 1
  /\ nextUserId = NumUsers + 1
  /\ \E uid \in UserIds :
       /\ getSessionsByUserId(uid) # {}
       /\ loginSession = [c \in Cookies |-> uid]
       /\ client = [page |-> "sessions", user |-> uid,
                    sessions |-> Restrict(sessions, getSessionsByUserId(uid)),
                    isPending |-> FALSE, sessionToReview |-> None,
                    reviewRating |-> MaxRating, sent |-> None]
  /\ inflight = {}
  /\ response = Res("", 0, "")

NextCard ==
  \/ \E id \in SessionIds : ClickAccept(id)
  \/ \E id \in SessionIds : ClickDecline(id)
  \/ \E id \in SessionIds : ClickComplete(id)
  \/ \E id \in SessionIds : ClickCancel(id)
  \/ MutationSettled
  \/ \E id \in SessionIds : handleReviewSession(id)
  \/ \E star \in MinRating..MaxRating : setReviewRating(star)
  \/ submitReview

SpecCard == InitCard /\ [][NextCard]_vars

\* ---- the AuthProvider of the client ----
\* client = [page, user, isLoading, calls, loggedIn]: the two useState values,
\* the calls of fetchUser, login, register and logout that have not returned
\* yet, and the user of the last login() or register() that resolved true
\* (NoUser again once logout() or refetchUser() is called).
MaxCalls == 2

\* the cookie of the browser the client runs in
Browser == 1

\* a call suspended at its await: stage "sent" until the server has answered
\* or the request has failed, then "ok", "error" (a status that is not 2xx) or
\* "threw"; user is data.user of an ok answer
Sent(f, i, n, p) ==
  [fn |-> f, initial |-> i, stage |-> "sent", user |-> NoUser, username |-> n, password |-> p]

Answered(call, stage, user) == [call EXCEPT !.stage = stage, !.user = user]

\* a call starts: it runs up to its await, the request is sent
Start(f, n, p) ==
  /\ Cardinality(client.calls) < MaxCalls
  /\ Sent(f, FALSE, n, p) \notin client.calls
  /\ client' = [client EXCEPT
                  !.calls = @ \cup {Sent(f, FALSE, n, p)},
                  !.loggedIn = IF f \in {"logout", "fetchUser"} THEN NoUser ELSE @]
  /\ UNCHANGED <<store, loginSession, inflight, response>>

login(n, p) == Start("login", n, p)

register(n, p) ==
  /\ nextUserId <= NumUsers
  /\ \A call \in client.calls : call.fn # "register"
  /\ Start("register", n, p)

logout == Start("logout", 0, "")

refetchUser == Start("fetchUser", 0, "")

\* the server handles the request of a call and its answer reaches the client
AnswerMe(call) ==
  /\ call \in client.calls /\ call.fn = "fetchUser" /\ call.stage = "sent"
  /\ LET uid == loginSession[Browser]
     IN  client' = [client EXCEPT !.calls = (@ \ {call}) \cup
                      { IF uid = NoUser \/ uid \notin DOMAIN users
                        THEN Answered(call, "error", NoUser)
                        ELSE Answered(call, "ok", uid) }]
  /\ UNCHANGED <<store, loginSession, inflight, response>>

AnswerLogin(call) ==
  /\ call \in client.calls /\ call.fn = "login" /\ call.stage = "sent"
  /\ LET found == getUserByUsername(call.username)
         valid == found # {} /\ \A u \in found : compare(call.password, users[u].password)
     IN  IF valid
         THEN LET user == CHOOSE u \in found : TRUE
              IN  /\ loginSession' = [loginSession EXCEPT ![Browser] = user]
                  /\ client' = [client EXCEPT
                                  !.calls = (@ \ {call}) \cup {Answered(call, "ok", user)}]
         ELSE /\ client' = [client EXCEPT
                              !.calls = (@ \ {call}) \cup {Answered(call, "error", NoUser)}]
              /\ UNCHANGED loginSession
  /\ UNCHANGED <<store, inflight, response>>

AnswerRegister(call) ==
  /\ call \in client.calls /\ call.fn = "register" /\ call.stage = "sent"
  /\ IF getUserByUsername(call.username) = {} /\ getUserByEmail(call.username) = {}
     THEN /\ users' = (nextUserId :>
                         [isAdmin |-> FALSE, username |-> call.username,
                          email |-> call.username, password |-> Hash(call.password)]) @@ users
          /\ nextUserId' = nextUserId + 1
          /\ loginSession' = [loginSession EXCEPT ![Browser] = nextUserId]
          /\ client' = [client EXCEPT
                          !.calls = (@ \ {call}) \cup {Answered(call, "ok", nextUserId)}]
     ELSE /\ client' = [client EXCEPT
                          !.calls = (@ \ {call}) \cup {Answered(call, "error", NoUser)}]
          /\ UNCHANGED <<users, nextUserId, loginSession>>
  /\ UNCHANGED <<skills, sessions, reviews, nextSkillId, nextSessionId, nextReviewId,
                 inflight, response>>

AnswerLogout(call) ==
  /\ call \in client.calls /\ call.fn = "logout" /\ call.stage = "sent"
  /\ loginSession' = [loginSession EXCEPT ![Browser] = NoUser]
  /\ client' = [client EXCEPT !.calls = (@ \ {call}) \cup {Answered(call, "ok", NoUser)}]
  /\ UNCHANGED <<store, inflight, response>>

\* the request fails: fetch rejects
NetworkError(call) ==
  /\ call \in client.calls /\ call.stage = "sent"
  /\ client' = [client EXCEPT !.calls = (@ \ {call}) \cup {Answered(call, "threw", NoUser)}]
  /\ UNCHANGED <<store, loginSession, inflight, response>>

fetchUser_KeepsUserOnError(call) ==
  /\ call \in client.calls /\ call.fn = "fetchUser" /\ call.stage # "sent"
  /\ client' = [client EXCEPT
                  !.calls = @ \ {call},
                  !.user = IF call.stage = "ok" THEN call.user ELSE @,
                  !.isLoading = FALSE]
  /\ UNCHANGED <<store, loginSession, inflight, response>>

\* fetchUser resumes after its await: try / catch / finally
fetchUser(call) ==
  /\ call \in client.calls /\ call.fn = "fetchUser" /\ call.stage # "sent"
  /\ client' = [client EXCEPT
                  !.calls = @ \ {call},
                  !.user = IF call.stage = "ok" THEN call.user ELSE NoUser,
                  !.isLoading = FALSE]
  /\ UNCHANGED <<store, loginSession, inflight, response>>

\* login and register resume: setUser and true on an ok answer, false otherwise
loginReturns(call) ==
  /\ call \in client.calls /\ call.fn \in {"login", "register"} /\ call.stage # "sent"
  /\ client' = [client EXCEPT
                  !.calls = @ \ {call},
                  !.user = IF call.stage = "ok" THEN call.user ELSE @,
                  !.loggedIn = IF call.stage = "ok" THEN call.user ELSE @]
  /\ UNCHANGED <<store, loginSession, inflight, response>>

\* logout resumes: setUser(null) unless apiRequest threw
logoutReturns(call) ==
  /\ call \in client.calls /\ call.fn = "logout" /\ call.stage # "sent"
  /\ client' = [client EXCEPT
                  !.calls = @ \ {call},
                  !.user = IF call.stage = "ok" THEN NoUser ELSE @]
  /\ UNCHANGED <<store, loginSession, inflight, response>>

\* the call of fetchUser made by useEffect on mount
InitialFetch == Sent("fetchUser", TRUE, 0, "")

\* the provider is mounted and its effect has run; the browser may hold the
\* cookie of an earlier login
InitClient ==
  /\ users = [u \in 1..(NumUsers - 1) |-> SeedUser(u)]
  /\ skills = <<>>
  /\ sessions = <<>>
  /\ reviews = <<>>
  /\ nextSkillId = 1
  /\ nextSessionId = 1
  /\ nextReviewId = 1
  /\ nextUserId = NumUsers
  /\ loginSession \in [Cookies -> {NoUser} \cup (1..(NumUsers - 1))]
  /\ inflight = {}
  /\ response = Res("", 0, "")
  /\ client = [page |-> "app", user |-> NoUser, isLoading |-> TRUE,
               calls |-> {InitialFetch}, loggedIn |-> NoUser]

NextClient ==
  \/ \E username \in Names, password \in Passwords : login(username, password)
  \/ \E username \in Names, password \in Passwords : register(username, password)
  \/ logout
  \/ refetchUser
  \/ \E call \in client.calls : AnswerMe(call)
  \/ \E call \in client.calls : AnswerLogin(call)
  \/ \E call \in client.calls : AnswerRegister(call)
  \/ \E call \in client.calls : AnswerLogout(call)
  \/ \E call \in client.calls : NetworkError(call)
  \/ \E call \in client.calls : fetchUser(call)
  \/ \E call \in client.calls : loginReturns(call)
  \/ \E call \in client.calls : logoutReturns(call)

SpecClient == InitClient /\ [][NextClient]_vars

\* every request settles, and a settled call resumes
SpecClientLive ==
  /\ SpecClient
  /\ WF_vars(AnswerMe(InitialFetch) \/ NetworkError(InitialFetch))
  /\ WF_vars(\E call \in client.calls : call.initial /\ fetchUser(call))







\* ======================= session lifecycle =======================

OnlyProviderMessage == "Only the provider can update this session"

Participants(id) == {sessions[id].requesterId, sessions[id].providerId}

\* the request updateSession(r) of caller uid that sets session id to status
Update(uid, id, status) == Req("updateSession", uid, id, NoUser, status, 0)

\* C1: on a pending session, PATCH status=accepted by an authenticated user
\* other than the provider is answered 403 and changes nothing, and every
\* step that takes a session from pending to accepted is the write of a
\* request made by the session's provider.
C1_AcceptOnlyByProvider ==
  [][ /\ \A uid \in UserIds, id \in SessionIds :
           ( /\ hasSession(id)
             /\ sessions[id].status = "pending"
             /\ uid # sessions[id].providerId
             /\ PatchSession(uid, id, "accepted") )
           => ( /\ response' = Res("patchSession", 403, OnlyProviderMessage)
                /\ UNCHANGED <<store, inflight>> )
      /\ \A id \in DOMAIN sessions :
           ( /\ sessions[id].status = "pending"
             /\ id \in DOMAIN sessions'
             /\ sessions'[id].status = "accepted" )
           => ( /\ Update(sessions[id].providerId, id, "accepted") \in inflight \ inflight'
                /\ response' = Res("patchSession", 200, "") )
    ]_vars

\* the provider's accept of a pending session is admitted and awaits its
\* write, and an accept by someone else has just been answered 403
C1_Witness ==
  \E id \in DOMAIN sessions :
    /\ sessions[id].status = "pending"
    /\ Update(sessions[id].providerId, id, "accepted") \in inflight
    /\ response = Res("patchSession", 403, OnlyProviderMessage)

\* C2: on an accepted session, PATCH status=completed by an authenticated
\* user other than the provider (the requester included) is answered 403 and
\* changes nothing, and every step that takes a session from accepted to
\* completed is the write of a request made by the session's provider.
C2_CompleteOnlyByProvider ==
  [][ /\ \A uid \in UserIds, id \in SessionIds :
           ( /\ hasSession(id)
             /\ sessions[id].status = "accepted"
             /\ uid # sessions[id].providerId
             /\ PatchSession(uid, id, "completed") )
           => ( /\ response' = Res("patchSession", 403, OnlyProviderMessage)
                /\ UNCHANGED <<store, inflight>> )
      /\ \A id \in DOMAIN sessions :
           ( /\ sessions[id].status = "accepted"
             /\ id \in DOMAIN sessions'
             /\ sessions'[id].status = "completed" )
           => ( /\ Update(sessions[id].providerId, id, "completed") \in inflight \ inflight'
                /\ response' = Res("patchSession", 200, "") )
    ]_vars

\* the provider's complete of an accepted session awaits its write, and a
\* complete or accept by someone else has just been answered 403
C2_Witness ==
  \E id \in DOMAIN sessions :
    /\ sessions[id].status = "accepted"
    /\ Update(sessions[id].providerId, id, "completed") \in inflight
    /\ response = Res("patchSession", 403, OnlyProviderMessage)

\* C3: on a pending session, PATCH status=cancelled by the requester or the
\* provider is admitted and its write sets the status to cancelled with a
\* 200; by an authenticated non-participant it is answered 403 and changes
\* nothing; and every step from pending to cancelled is the write of a
\* participant's request.
C3_CancelByParticipants ==
  [][ /\ \A uid \in UserIds, id \in SessionIds :
           ( /\ hasSession(id)
             /\ sessions[id].status = "pending"
             /\ PatchSession(uid, id, "cancelled") )
           => IF uid \in Participants(id)
                THEN /\ inflight' = inflight \cup {Update(uid, id, "cancelled")}
                     /\ UNCHANGED <<store, response>>
                ELSE /\ response' = Res("patchSession", 403, "Not authorized")
                     /\ UNCHANGED <<store, inflight>>
      /\ \A r \in inflight :
           ( /\ r.kind = "updateSession"
             /\ r.status = "cancelled"
             /\ hasSession(r.id)
             /\ updateSession(r) )
           => ( /\ sessions'[r.id].status = "cancelled"
                /\ response' = Res("patchSession", 200, "") )
      /\ \A id \in DOMAIN sessions :
           ( /\ sessions[id].status = "pending"
             /\ id \in DOMAIN sessions'
             /\ sessions'[id].status = "cancelled" )
           => \E uid \in Participants(id) :
                Update(uid, id, "cancelled") \in inflight \ inflight'
    ]_vars

\* the requester's cancel of a pending session awaits its write, and a cancel
\* by a non-participant has just been answered 403
C3_Witness ==
  \E id \in DOMAIN sessions :
    /\ sessions[id].status = "pending"
    /\ Update(sessions[id].requesterId, id, "cancelled") \in inflight
    /\ response = Res("patchSession", 403, "Not authorized")

\* the handler answered with an error status and touched nothing
Rejected ==
  /\ response'.route = "patchSession"
  /\ response'.code >= 400
  /\ UNCHANGED <<store, inflight>>

\* C4: completed and cancelled are terminal: every PATCH on a session that is
\* completed or cancelled, by any caller and with any status, is rejected,
\* and no step changes the status of such a session.
C4_TerminalStatuses ==
  [][ /\ \A uid \in Callers, id \in SessionIds, st \in BodyStatuses :
           ( /\ hasSession(id)
             /\ sessions[id].status \in {"completed", "cancelled"}
             /\ PatchSession(uid, id, st) )
           => Rejected
      /\ \A id \in DOMAIN sessions :
           ( /\ sessions[id].status \in {"completed", "cancelled"}
             /\ id \in DOMAIN sessions' )
           => sessions'[id].status = sessions[id].status
    ]_vars

\* C5: an accepted session cannot be cancelled: PATCH status=cancelled on an
\* accepted session is rejected for the requester and the provider alike, and
\* no step takes a session from accepted to cancelled.
C5_NoCancelAfterAccept ==
  [][ /\ \A id \in SessionIds :
           ( /\ hasSession(id)
             /\ sessions[id].status = "accepted" )
           => \A uid \in Participants(id) :
                PatchSession(uid, id, "cancelled") => Rejected
      /\ \A id \in DOMAIN sessions :
           ~ ( /\ sessions[id].status = "accepted"
               /\ id \in DOMAIN sessions'
               /\ sessions'[id].status = "cancelled" )
    ]_vars

\* C6: lifecycle ordering: a session that becomes completed was accepted
\* immediately before, and one that becomes accepted was pending immediately
\* before; PATCH status=completed on a pending session is rejected.
C6_LifecycleOrder ==
  [][ /\ \A uid \in Callers, id \in SessionIds :
           ( /\ hasSession(id)
             /\ sessions[id].status = "pending"
             /\ PatchSession(uid, id, "completed") )
           => Rejected
      /\ \A id \in DOMAIN sessions :
           ( id \in DOMAIN sessions' /\ sessions'[id].status # sessions[id].status )
           => ( /\ sessions'[id].status = "completed" => sessions[id].status = "accepted"
                /\ sessions'[id].status = "accepted" => sessions[id].status = "pending" )
    ]_vars

\* ======================= reviews =======================

\* C7: every stored review has reviewer and reviewee equal to the two
\* distinct participants of its session (a review is created only for the
\* other participant, never for the caller).
C7_ReviewOfOtherParticipant ==
  \A v \in DOMAIN reviews :
    /\ hasSession(reviews[v].sessionId)
    /\ reviews[v].reviewerId # reviews[v].revieweeId
    /\ {reviews[v].reviewerId, reviews[v].revieweeId} = Participants(reviews[v].sessionId)

\* C8: whenever a review is appended to the store, its session's status is
\* completed at that moment.
C8_ReviewInsertedWhileCompleted ==
  [][ \A v \in DOMAIN reviews' :
        v \notin DOMAIN reviews
        => ( /\ hasSession(reviews'[v].sessionId)
             /\ sessions[reviews'[v].sessionId].status = "completed" )
    ]_vars

\* ======================= session creation =======================

\* C9: every stored session has requesterId # providerId, and a session
\* request whose providerId is the caller is answered 400 and neither creates
\* a session nor leaves an insert pending.
C9_NoSelfSession ==
  /\ [](\A id \in DOMAIN sessions : sessions[id].requesterId # sessions[id].providerId)
  /\ [][ \A uid \in UserIds, bodyOk \in BOOLEAN, k \in SkillIds :
           PostSessionRequest(uid, bodyOk, k, uid)
           => ( /\ response'.route = "sessionRequest"
                /\ response'.code = 400
                /\ UNCHANGED <<store, inflight>> )
       ]_vars

\* a session is stored and the owner of a skill has just been refused a
\* session with themselves
C9_Witness ==
  /\ DOMAIN sessions # {}
  /\ response = Res("sessionRequest", 400, "Cannot request session with yourself")

\* C10: every stored session references an existing skill whose owner is the
\* session's provider, and a session request whose skill does not exist or is
\* not owned by the given providerId is answered 400 and neither creates a
\* session nor leaves an insert pending.
C10_ProviderOwnsSkill ==
  /\ [](\A id \in DOMAIN sessions :
          /\ hasSkill(sessions[id].skillId)
          /\ skills[sessions[id].skillId].userId = sessions[id].providerId)
  /\ [][ \A uid \in UserIds, k \in SkillIds, p \in UserIds :
           ( /\ ~hasSkill(k) \/ skills[k].userId # p
             /\ PostSessionRequest(uid, TRUE, k, p) )
           => ( /\ response' = Res("sessionRequest", 400, "Invalid skill or provider")
                /\ UNCHANGED <<store, inflight>> )
       ]_vars

\* a session is stored and a request naming a provider who does not own the
\* skill has just been refused
C10_Witness ==
  /\ DOMAIN sessions # {}
  /\ response = Res("sessionRequest", 400, "Invalid skill or provider")


\* ======================= transition errors and frame =======================

\* C11 (as claimed): for a session id not in the store, PATCH is answered 404
\* whatever the status and whoever the caller, and nothing is created or
\* changed.
C11_NotFoundAlways ==
  [][ \A uid \in Callers, id \in SessionIds, st \in BodyStatuses :
        ( ~hasSession(id) /\ PatchSession(uid, id, st) )
        => ( /\ response' = Res("patchSession", 404, "Session not found")
             /\ UNCHANGED <<store, inflight>> )
    ]_vars

\* C11 (amended): for a session id not in the store, PATCH by an
\* authenticated caller with status accepted, completed or cancelled is
\* answered 404; an unauthenticated caller is answered 401 and any other
\* status 400 before the lookup; in every case nothing is created or changed.
C11_NotFound ==
  [][ \A uid \in Callers, id \in SessionIds, st \in BodyStatuses :
        ( ~hasSession(id) /\ PatchSession(uid, id, st) )
        => ( /\ response' =
                  IF uid = NoUser THEN Res("patchSession", 401, "Unauthorized")
                  ELSE IF st \notin {"accepted", "completed", "cancelled"}
                    THEN Res("patchSession", 400, "Invalid status")
                  ELSE Res("patchSession", 404, "Session not found")
             /\ UNCHANGED <<store, inflight>> )
    ]_vars

\* a session was created and later removed, and a PATCH on its id has just
\* been answered 404
C11_Witness ==
  /\ nextSessionId > 1
  /\ DOMAIN sessions = {}
  /\ response = Res("patchSession", 404, "Session not found")

\* C12: PATCH by an authenticated caller with a status other than accepted,
\* completed, cancelled (pending and the missing value included) is answered
\* 400 and changes nothing, and no step changes a stored status to a value
\* other than accepted, completed or cancelled.
C12_InvalidStatusRejected ==
  [][ /\ \A uid \in UserIds, id \in SessionIds, st \in BodyStatuses :
           ( st \notin {"accepted", "completed", "cancelled"} /\ PatchSession(uid, id, st) )
           => ( /\ response' = Res("patchSession", 400, "Invalid status")
                /\ UNCHANGED <<store, inflight>> )
      /\ \A id \in DOMAIN sessions :
           ( id \in DOMAIN sessions' /\ sessions'[id].status # sessions[id].status )
           => sessions'[id].status \in {"accepted", "completed", "cancelled"}
    ]_vars

\* a session is stored, still pending, and a PATCH with an unrecognised status
\* has just been answered 400
C12_Witness ==
  /\ \E id \in DOMAIN sessions : sessions[id].status = "pending"
  /\ response = Res("patchSession", 400, "Invalid status")

C14_CreatedPendingByCaller ==
  /\ [](/\ \A id \in DOMAIN sessions : sessions[id].status \in Statuses
        /\ \A uid \in Callers, bodyOk \in BOOLEAN, k \in SkillIds, p \in UserIds :
             ~ENABLED ( /\ PostSessionRequest(uid, bodyOk, k, p)
                        /\ inflight' # inflight
                        /\ inflight' \ inflight # {Req("createSession", uid, k, p, "", 0)} ))
  /\ [][ \A id \in DOMAIN sessions' \ DOMAIN sessions :
           /\ sessions'[id].status = "pending"
           /\ Req("createSession", sessions'[id].requesterId, sessions'[id].skillId,
                  sessions'[id].providerId, "", 0) \in inflight \ inflight'
       ]_vars

\* a session has just been inserted: it is pending and the insert answered 201
C14_Witness ==
  /\ \E id \in DOMAIN sessions : sessions[id].status = "pending"
  /\ response = Res("sessionRequest", 201, "")


\* ======================= reviews =======================

\* C15 (as claimed): every review creation that is rejected by the route is
\* answered 400, whichever rule was violated, and stores no review.
C15_RejectedAlways400 ==
  [][ \A uid \in UserIds, id \in SessionIds, who \in UserIds, rating \in BodyRatings :
        ( PostReview(uid, id, who, rating) /\ inflight' = inflight )
        => ( response'.code = 400 /\ UNCHANGED store )
    ]_vars

\* C15 (amended): a review creation by an authenticated caller is answered
\* 400 when the rating is out of range, when the session is missing or not
\* completed, and when the reviewee is not a participant, but 403 when the
\* caller is not a participant of the completed session; each answer has its
\* own message and none stores a review or leaves one to be stored.  (In no
\* state can the request take a step with another outcome.)
C15_RejectedReview ==
  \A uid \in UserIds, id \in SessionIds, who \in UserIds, rating \in BodyRatings :
    ~ENABLED
      ( /\ PostReview(uid, id, who, rating)
        /\ ~( IF rating < 1 \/ rating > 5
                THEN /\ response' = Res("postReview", 400, "Invalid review data")
                     /\ UNCHANGED <<store, inflight>>
              ELSE IF ~hasSession(id) \/ sessions[id].status # "completed"
                THEN /\ response' = Res("postReview", 400, "Can only review completed sessions")
                     /\ UNCHANGED <<store, inflight>>
              ELSE IF uid \notin Participants(id)
                THEN /\ response' = Res("postReview", 403, "Not authorized to review this session")
                     /\ UNCHANGED <<store, inflight>>
              ELSE IF who \notin Participants(id)
                THEN /\ response' = Res("postReview", 400, "Invalid reviewee")
                     /\ UNCHANGED <<store, inflight>>
              ELSE UNCHANGED store ) )

\* a user who takes no part in a completed session has just been answered 403
\* and no review is stored
C15_Witness ==
  /\ \E id \in DOMAIN sessions : sessions[id].status = "completed"
  /\ DOMAIN reviews = {}
  /\ response = Res("postReview", 403, "Not authorized to review this session")

\* C16: every stored review has a rating in 1..5, and in no state can a
\* review creation with a rating below 1 or above 5 do anything but be
\* answered 400 with nothing stored or left to be stored.
C16_RatingInRange ==
  /\ \A v \in DOMAIN reviews : 1 <= reviews[v].rating /\ reviews[v].rating <= 5
  /\ \A uid \in UserIds, id \in SessionIds, who \in UserIds, rating \in BodyRatings :
       (rating < 1 \/ rating > 5)
       => ~ENABLED ( /\ PostReview(uid, id, who, rating)
                     /\ ~( /\ response' = Res("postReview", 400, "Invalid review data")
                           /\ UNCHANGED <<store, inflight>> ) )

\* a review is stored on a completed session and a further creation with an
\* out-of-range rating has just been answered 400
C16_Witness ==
  /\ \E v \in DOMAIN reviews :
       /\ hasSession(reviews[v].sessionId)
       /\ sessions[reviews[v].sessionId].status = "completed"
  /\ response = Res("postReview", 400, "Invalid review data")

\* ======================= deletion and referential integrity =======================

\* C17: a session row leaves the store only in a step that is an admin's
\* successful deletion of its requester or provider.
C17_SessionRemovedOnlyWithUser ==
  [][ \A id \in DOMAIN sessions \ DOMAIN sessions' :
        /\ response' = Res("adminDeleteUser", 200, "User deleted")
        /\ Participants(id) \ DOMAIN users' # {}
    ]_vars

RefIntegrity ==
  /\ \A k \in DOMAIN skills : skills[k].userId \in DOMAIN users
  /\ \A i \in DOMAIN sessions :
       /\ sessions[i].requesterId \in DOMAIN users
       /\ sessions[i].providerId \in DOMAIN users
       /\ sessions[i].skillId \in DOMAIN skills
  /\ \A v \in DOMAIN reviews :
       /\ reviews[v].sessionId \in DOMAIN sessions
       /\ reviews[v].reviewerId \in DOMAIN users
       /\ reviews[v].revieweeId \in DOMAIN users

\* C18: in every reachable state every skill's owner, every session's
\* requester, provider and skill, and every review's session, reviewer and
\* reviewee are stored; a step that deletes a user also deletes every skill
\* it owns, every session it takes part in, and every review it wrote or
\* received or that belongs to such a session.
C18_ReferentialIntegrity ==
  /\ []RefIntegrity
  /\ [][ \A u \in DOMAIN users \ DOMAIN users' :
           /\ \A k \in DOMAIN skills : skills[k].userId = u => k \notin DOMAIN skills'
           /\ \A i \in DOMAIN sessions :
                u \in Participants(i)
                => /\ i \notin DOMAIN sessions'
                   /\ \A v \in DOMAIN reviews :
                        reviews[v].sessionId = i => v \notin DOMAIN reviews'
           /\ \A v \in DOMAIN reviews :
                u \in {reviews[v].reviewerId, reviews[v].revieweeId}
                => v \notin DOMAIN reviews'
       ]_vars

\* the admin has just deleted the requester of a reviewed session: the skill
\* stays, and the cascade has emptied the sessions and reviews tables
C18_Witness ==
  /\ DOMAIN users # UserIds
  /\ DOMAIN skills # {}
  /\ nextSessionId > 1 /\ nextReviewId > 1
  /\ DOMAIN sessions = {} /\ DOMAIN reviews = {}
  /\ response = Res("adminDeleteUser", 200, "User deleted")


\* ======================= authentication and admin gate =======================

\* the callers whose row in `users` is missing or has is_admin false
NotAdmin(uid) == uid # NoUser /\ ~getUser(uid).isAdmin

\* C19: an admin-route request whose caller is logged in and is not an admin
\* in the user store at that moment (never was, or has had the flag cleared
\* since logging in) is answered 403 and leaves the store, the login sessions
\* and the pending writes unchanged; and with requests answered one at a
\* time, an admin write is pending only while its caller is an admin.
C19_AdminFlagChecked ==
  /\ [](\A r \in inflight :
          r.kind \in {"updateUser", "deleteUser"}
          => \E c \in Cookies : getUser(loginSession[c]).isAdmin)
  /\ [][ \A c \in Cookies :
           ( /\ NotAdmin(loginSession[c])
             /\ \/ AdminGetUsers(loginSession[c])
                \/ AdminGetStats(loginSession[c])
                \/ \E id \in UserIds, isAdmin \in BOOLEAN :
                     AdminPatchUser(loginSession[c], id, isAdmin)
                \/ \E id \in UserIds : AdminDeleteUserAwait(loginSession[c], id) )
           => ( /\ response'.code = 403
                /\ response'.message = "Forbidden"
                /\ UNCHANGED <<store, loginSession, inflight>> )
       ]_vars

\* the seeded admin is logged in, its flag has been cleared, and its request
\* to delete a user has just been answered 403
C19_Witness ==
  /\ \E c \in Cookies : loginSession[c] = 1
  /\ 1 \in DOMAIN users
  /\ ~users[1].isAdmin
  /\ response = Res("adminDeleteUser", 403, "Forbidden")

\* the eleven routes behind requireAuth or requireAdmin, called by uid
GuardedRoute(uid) ==
  \/ GetMySkills(uid)
  \/ GetMySessions(uid)
  \/ \E bodyOk \in BOOLEAN : PostSkill(uid, bodyOk)
  \/ \E id \in SkillIds : DeleteSkill(uid, id)
  \/ \E bodyOk \in BOOLEAN, s \in SkillIds, p \in UserIds : PostSessionRequest(uid, bodyOk, s, p)
  \/ \E id \in SessionIds, st \in BodyStatuses : PatchSession(uid, id, st)
  \/ \E id \in SessionIds, who \in UserIds, rating \in BodyRatings : PostReview(uid, id, who, rating)
  \/ AdminGetUsers(uid)
  \/ AdminGetStats(uid)
  \/ \E id \in UserIds, isAdmin \in BOOLEAN : AdminPatchUser(uid, id, isAdmin)
  \/ \E id \in UserIds : AdminDeleteUserAwait(uid, id)

\* C20: a request to a route behind requireAuth or requireAdmin whose login
\* session carries no user is answered 401 and changes nothing; a login
\* session comes to carry a user only in the step that answers a successful
\* login (200) or registration (201), the user being stored; logout leaves
\* the login session without a user.
C20_Unauthenticated ==
  [][ /\ GuardedRoute(NoUser)
         => ( /\ response'.code = 401
              /\ response'.message = "Unauthorized"
              /\ UNCHANGED <<store, loginSession, inflight>> )
      /\ \A c \in Cookies :
           /\ loginSession'[c] \notin {NoUser, loginSession[c]}
              => ( /\ response' \in {Res("login", 200, ""), Res("register", 201, "")}
                   /\ loginSession'[c] \in DOMAIN users' )
           /\ Logout(c) => loginSession'[c] = NoUser
           /\ ( loginSession[c] # NoUser /\ loginSession'[c] = NoUser )
              => response'.route = "logout"
    ]_vars

\* a browser registered a user, which logged it in, then logged out, and its
\* next request to add a skill has just been answered 401
C20_Witness ==
  /\ nextUserId > NumUsers
  /\ \A c \in Cookies : loginSession[c] = NoUser
  /\ DOMAIN skills = {}
  /\ response = Res("postSkill", 401, "Unauthorized")


\* ======================= registration =======================

UniqueUsers ==
  \A u \in DOMAIN users, v \in DOMAIN users :
    u # v => ( /\ users[u].username # users[v].username
               /\ users[u].email # users[v].email )

\* C21: no two stored users share a username or an e-mail address, however
\* registrations interleave; a registration whose username or e-mail is
\* taken when it is checked is answered 400, one whose username or e-mail
\* is taken when it is inserted is answered 500, and neither creates a user.
C21_UniqueUsers ==
  /\ []UniqueUsers
  /\ [][ /\ \A c \in Cookies, n \in Names, e \in Names, p \in Passwords :
              ( /\ getUserByUsername(n) \cup getUserByEmail(e) # {}
                /\ Register(c, TRUE, n, e, p) )
              => ( response'.code = 400 /\ UNCHANGED <<store, loginSession, inflight>> )
         /\ \A r \in inflight :
              ( /\ r.kind = "createUser"
                /\ getUserByUsername(r.username) \cup getUserByEmail(r.email) # {}
                /\ createUser(r) )
              => ( response'.code = 500 /\ UNCHANGED <<store, loginSession>> )
       ]_vars

\* two registrations with a common username or e-mail both passed the check;
\* one was inserted and the insert of the other has just been refused
C21_Witness ==
  /\ Cardinality(DOMAIN users) = 2
  /\ nextUserId = 3
  /\ response = Res("register", 500, "An error occurred. Please try again.")


\* ======================= races and deleted users =======================

\* C25: transitions on one session are not serialised: while the requester's
\* cancel of a pending session awaits its write the provider's accept is
\* still admitted, and the other way round; every admitted write, whatever
\* the status stored by then, stores its own status and is answered 200, so
\* the later of two writes overwrites the earlier.
C25_LastWriteWins ==
  /\ [](\A id \in DOMAIN sessions :
          LET cancel == Update(sessions[id].requesterId, id, "cancelled")
              accept == Update(sessions[id].providerId, id, "accepted")
          IN  ( sessions[id].status = "pending" /\ Cardinality(inflight) < MaxInFlight )
              => /\ cancel \in inflight
                    => ENABLED ( /\ PatchSession(sessions[id].providerId, id, "accepted")
                                 /\ inflight' = inflight \cup {accept} )
                 /\ accept \in inflight
                    => ENABLED ( /\ PatchSession(sessions[id].requesterId, id, "cancelled")
                                 /\ inflight' = inflight \cup {cancel} ))
  /\ [][ \A r \in inflight :
           ( r.kind = "updateSession" /\ hasSession(r.id) /\ updateSession(r) )
           => ( /\ sessions'[r.id].status = r.status
                /\ response' = Res("patchSession", 200, "") )
       ]_vars

\* the provider's accept and the requester's cancel of the same pending
\* session have both passed the check and both await their write
C25_Witness ==
  \E id \in DOMAIN sessions :
    /\ sessions[id].status = "pending"
    /\ Update(sessions[id].requesterId, id, "cancelled") \in inflight
    /\ Update(sessions[id].providerId, id, "accepted") \in inflight

C27_AdminRemains ==
  \E u \in DOMAIN users : users[u].isAdmin


\* ======================= failures of the store =======================

\* C22: whenever the store operation a request awaits fails, the request is
\* answered 500 in that step and is no longer pending.
C22_FailureAnswered500 ==
  [][ \A r \in inflight :
        Reject(r) => ( response'.route = r.route /\ response'.code = 500 /\ r \notin inflight' )
    ]_vars


\* ======================= skill search =======================

\* two letters equal up to case
SameLetter(c, d) == c = d \/ {c, d} = {"a", "A"} \/ {c, d} = {"b", "B"}

\* text contains sub as a case-insensitive substring
ContainsIgnoringCase(text, sub) ==
  \E off \in 0..(Len(text) - Len(sub)) :
    \A k \in 1..Len(sub) : SameLetter(text[off + k], sub[k])

\* the skills a search for (query, category) has to return
Wanted(query, category) ==
  { id \in DOMAIN skills :
      /\ ( Truthy(query) =>
             \/ ContainsIgnoringCase(skills[id].name, query[1])
             \/ ( skills[id].description # None
                  /\ ContainsIgnoringCase(skills[id].description[1], query[1]) ) )
      /\ ( Truthy(category) => skills[id].category = category[1] ) }

\* C24: a search answers with exactly the skills whose name or description
\* contains the query ignoring case (when a query is given) and whose category
\* is the given one (when one is given), each once, joined with its owner and
\* newest first; without query and category it answers with every skill.
C24_SearchResult ==
  \A query \in Queries, category \in CategoryParams :
    ~ENABLED ( /\ Search(query, category)
               /\ LET found == response'.body
                  IN ~( /\ {found[i].id : i \in DOMAIN found} = Wanted(query, category)
                        /\ Len(found) = Cardinality(Wanted(query, category))
                        /\ \A i \in DOMAIN found :
                             /\ found[i].skill = skills[found[i].id]
                             /\ found[i].user = users[skills[found[i].id].userId]
                        /\ \A i, k \in DOMAIN found :
                             i < k => found[i].skill.createdAt >= found[k].skill.createdAt
                        /\ ( ~Truthy(query) /\ category = None
                             => Len(found) = Cardinality(DOMAIN skills) ) ) )

\* a search by letters of the other case has selected one of two skills
C24_Witness ==
  /\ Cardinality(DOMAIN skills) = 2
  /\ response.route = "search"
  /\ Len(response.body) = 1
  /\ response.body[1].skill.name = <<"A", "b">>
  /\ response.body[1].skill.description = None
  /\ \E id \in DOMAIN skills : skills[id].name = <<"a">> /\ skills[id].description = Some(<<"b">>)


\* ======================= badges =======================

\* the server's id of a badge the Dashboard shows by name
BadgeId(name) ==
  CASE name = "Top Tutor" -> "top_tutor"
    [] name = "Skill Master" -> "skill_master"
    [] name = "Getting Started" -> "getting_started"
    [] name = "Highly Rated" -> "highly_rated"

\* C23: the badges the Dashboard shows for its user are the badges the
\* server computes for that user from the same skills, sessions and reviews.
C23_BadgesAgree ==
  client.page = "dashboard"
  => {BadgeId(client.badges[i]) : i \in DOMAIN client.badges}
       = {ServerBadges(client.user)[i] : i \in DOMAIN ServerBadges(client.user)}


\* ======================= the session cards =======================

\* C28: every status change the Dashboard requests is pending -> accepted,
\* pending -> cancelled or accepted -> completed by the provider, or
\* pending -> cancelled by the requester, of a session as the Dashboard
\* shows it; every review it submits is for a session shown completed and
\* names the other participant as reviewee.
C28_OnlyPermittedActions ==
  client.sent # None
  => LET req == client.sent[1]
         u == client.user
     IN  /\ req.sessionId \in DOMAIN client.sessions
         /\ LET s == client.sessions[req.sessionId]
            IN  /\ req.method = "PATCH"
                   => \/ s.status = "pending" /\ req.status \in {"accepted", "cancelled"}
                         /\ u = s.providerId
                      \/ s.status = "accepted" /\ req.status = "completed" /\ u = s.providerId
                      \/ s.status = "pending" /\ req.status = "cancelled" /\ u = s.requesterId
                /\ req.method = "POST"
                   => /\ s.status = "completed"
                      /\ req.revieweeId \in {s.requesterId, s.providerId} \ {u}

\* the requester of a completed session has submitted a review of its provider
C28_Witness ==
  /\ client.sent # None
  /\ client.sent[1].method = "POST"
  /\ client.user = sessions[1].requesterId
  /\ client.sent[1].revieweeId = sessions[1].providerId
  /\ client.sent[1].rating < MaxRating


\* ======================= the AuthProvider =======================

\* C29: from the moment login() or register() resolves true until logout() or
\* refetchUser() is called, the user state is the user logged in.
C29_UserStays == client.loggedIn # NoUser => client.user = client.loggedIn

\* C30: isLoading is true at first; it becomes false once the request made
\* on mount has settled, whatever its outcome; once false it stays false; and
\* a fetchUser whose request did not succeed sets the user to null.
C30_LoadingEnds ==
  /\ client.isLoading
  /\ <>(~client.isLoading)
  /\ [][ ~client.isLoading => ~client'.isLoading ]_vars
  /\ [][ \A call \in client.calls :
           ( call.stage \in {"error", "threw"} /\ fetchUser(call) )
           => ( client'.user = NoUser /\ ~client'.isLoading )
       ]_vars

\* the request made on mount threw and loading is over with no user
C30_Witness ==
  /\ ~client.isLoading
  /\ client.user = NoUser
  /\ client.calls = {}
  /\ loginSession[Browser] # NoUser

====
